---------------------------- MODULE Spec2Model ----------------------------
(***************************************************************************)
(* A model of bclreader (src/src/bclreader/bclreader.py): the assembly of  *)
(* per-cycle, per-tile BCL files into one byte matrix (read_cycles), the   *)
(* decode of one column of that matrix (SequenceCollection.__getitem__)    *)
(* and the reverse complement of a decoded sequence (Seq).                 *)
(*                                                                         *)
(* Conventions.  Sequences are 1-based here and 0-based in Python: the     *)
(* Python index j of a list or of an array axis is position j + 1.  A      *)
(* cycle directory "C<digits>.1" is named by the tuple of its decimal      *)
(* digits, the text that s.stem[1:] yields; a tile file "<stem>.bcl" is    *)
(* named by its tile number.  The file system does not change during a     *)
(* call, so the content of a file is fixed by the model at the moment the  *)
(* call first reads it and is kept in disk from then on.  Line 72 skips    *)
(* the header of every file the loops open, so the header of a file of a   *)
(* later cycle is never read: the model gives the files of the later       *)
(* cycles of one run the same header.                                      *)
(***************************************************************************)
EXTENDS Integers, Sequences, FiniteSets, TLC

----------------------------------------------------------------------------
(* Bounds of the model.                                                    *)

\* The largest number of cycle directories of a run.
MaxCycles == 2

\* The largest cluster count a header declares; bodies hold up to one byte more.
MaxCount == 2

\* The largest number of rows and of columns of a directly constructed matrix.
MaxRows == 2

MaxCols == 2

\* The longest sequence given to reverse_complement.
MaxSeqLen == 3

----------------------------------------------------------------------------
(* Integers as numpy and struct see them.                                  *)

Byte == 0..255

\* A cell of np.empty that nothing has written yet.
Uninitialised == -1

RECURSIVE BitAnd(_, _)
\* x & y on non-negative integers.
BitAnd(x, y) ==
    IF x = 0 \/ y = 0 THEN 0
    ELSE (x % 2) * (y % 2) + 2 * BitAnd(x \div 2, y \div 2)

\* x >> n on non-negative integers.
ShiftRight(x, n) == x \div (2 ^ n)

\* struct.pack('<I', n): the four header bytes of a tile file, least significant first.
PackLE32(n) ==
    << n % 256, (n \div 256) % 256, (n \div 65536) % 256, (n \div 16777216) % 256 >>

\* struct.unpack('<I', four bytes)[0].
UnpackLE32(h) == h[1] + 256 * h[2] + 65536 * h[3] + 16777216 * h[4]

RECURSIVE Decimal(_)
\* The decimal digits of a cycle number, as they stand in its directory's name.
Decimal(k) == IF k < 10 THEN << k >> ELSE Append(Decimal(k \div 10), k % 10)

RECURSIVE ParseInt(_)
\* int(text) for a text of decimal digits.
ParseInt(ds) ==
    IF ds = << >> THEN 0
    ELSE 10 * ParseInt(SubSeq(ds, 1, Len(ds) - 1)) + ds[Len(ds)]

RECURSIVE SumSeq(_)
\* sum(list).
SumSeq(q) == IF q = << >> THEN 0 ELSE q[1] + SumSeq(Tail(q))

\* np.cumsum(list).
CumSum(q) == [j \in 1..Len(q) |-> SumSeq(SubSeq(q, 1, j))]

----------------------------------------------------------------------------
(* Matrices: a shape and the cells, rows are cycles, columns are clusters. *)

\* np.empty((rows, cols), dtype=np.uint8).
EmptyMatrix(rows, cols) ==
    [rows |-> rows, cols |-> cols,
     cell |-> [p \in (1..rows) \X (1..cols) |-> Uninitialised]]

\* Whether numpy broadcasts a one-dimensional array of length m into a slice of length n.
Broadcastable(m, n) == m = n \/ m = 1

\* A slice assignment that drops the bytes behind the slice's length.
SliceAssignTruncating(m, row, lo, hi, data) ==
    IF Len(data) >= hi - lo
    THEN [ok |-> TRUE,
          raw |-> [m EXCEPT !.cell =
                     [p \in DOMAIN m.cell |->
                        IF p[1] = row /\ lo < p[2] /\ p[2] <= hi
                        THEN data[p[2] - lo]
                        ELSE m.cell[p]]]]
    ELSE [ok |-> FALSE, raw |-> m]

\* raw[row, lo:hi] = data, for a row and a slice inside the matrix.
\* ok is FALSE where numpy raises ValueError (could not broadcast).
SliceAssign(m, row, lo, hi, data) ==
    IF Broadcastable(Len(data), hi - lo)
    THEN [ok |-> TRUE,
          raw |-> [m EXCEPT !.cell =
                     [p \in DOMAIN m.cell |->
                        IF p[1] = row /\ lo < p[2] /\ p[2] <= hi
                        THEN IF Len(data) = 1 THEN data[1] ELSE data[p[2] - lo]
                        ELSE m.cell[p]]]]
    ELSE [ok |-> FALSE, raw |-> m]

----------------------------------------------------------------------------
(* The run directory.                                                      *)

\* The tile numbers of the files "s_1_<tile>.bcl" a cycle directory may hold.
Tiles == {1101, 1102}

\* The numbers the first cycle directory of a run may bear.
FirstCycleNumbers == {9}

DirNames == {Decimal(k) : k \in 1..(9 + MaxCycles)}

\* The orders in which a directory listing may deliver the members of S.
Listings(S) ==
    {q \in [1..Cardinality(S) -> S] : \A i, j \in 1..Cardinality(S) : q[i] = q[j] => i = j}

\* Byte k of the body of a tile file: different for every cycle, tile and position.
TileByte(dir, tile, k) == (ParseInt(dir) * 64 + (tile % 4) * 16 + k) % 256

TileBody(dir, tile, m) == [k \in 1..m |-> TileByte(dir, tile, k)]

\* The first bytes of a file: a whole header, or a file shorter than a header.
Heads == {PackLE32(n) : n \in 0..MaxCount} \cup {<< >>, << 1, 0, 0 >>}

\* The first bytes of the files of the later cycles: a header that declares no
\* cluster, or one that declares the most.
LaterHeads == {PackLE32(0), PackLE32(MaxCount)}

\* What lies behind a header of a file: nothing when the file ends inside the header.
BodiesAfter(dir, tile, head) ==
    IF Len(head) < 4 THEN {<< >>}
    ELSE {TileBody(dir, tile, m) : m \in 0..(MaxCount + 1)}

Unopened == [kind |-> "unopened"]

Missing == [kind |-> "missing"]

\* A file of which only the header has been read so far.
HeaderOnly(head) == [kind |-> "file", head |-> head, body |-> << >>, whole |-> FALSE]

WholeFile(head, body) == [kind |-> "file", head |-> head, body |-> body, whole |-> TRUE]

\* What open() may find at a path the call has not opened before, the file
\* beginning with the bytes head if there is one.
FilesAt(dir, tile, head) ==
    {Missing} \cup {WholeFile(head, body) : body \in BodiesAfter(dir, tile, head)}

VARIABLES
    cycle_glob,   \* directory.glob('C*.1'), in the order the listing delivers
    tile_glob,    \* cycle_dirs[0].glob('*.bcl'), in the order the listing delivers
    later_head,   \* the first bytes of the tile files of the cycles after the first
    disk,         \* the tile files, as far as the call has seen them
    pc,           \* where read_cycles stands
    cycle_dirs,   \* line 55
    bcls,         \* line 57
    nr_clusters,  \* line 59
    offsets,      \* line 63
    raw,          \* line 64
    c,            \* the outer loop's position, line 67
    b,            \* the inner loop's position, line 69
    log,          \* the files opened so far, in order
    returned,     \* << the matrix of the SequenceCollection returned >>, or << >>
    error,        \* the exception that ended the call, or "none"
    self_raw,     \* SequenceCollection._raw
    built,        \* the matrix the collection was constructed on
    item,         \* what the last __getitem__ did
    pinned,       \* what the first __getitem__ did
    calls,        \* the number of __getitem__ calls so far
    seq,          \* a Seq
    rc,           \* << seq.reverse_complement() >>, or << >>
    rcrc          \* << the reverse complement of that >>, or << >>

assembler_vars == << cycle_glob, tile_glob, later_head, disk, pc, cycle_dirs, bcls, nr_clusters,
                     offsets, raw, c, b, log, returned, error >>

collection_vars == << self_raw, built, item, pinned, calls >>

seq_vars == << seq, rc, rcrc >>

vars == << assembler_vars, collection_vars, seq_vars >>

----------------------------------------------------------------------------
(* read_cycles, lines 52-77.                                               *)

\* The sort key that sorted() without key= would use: the names compared as text.
CycleKeyAsText(dir) ==
    LET place(j) == IF j <= Len(dir) THEN dir[j] + 1 ELSE 0
    IN  place(1) * 121 + place(2) * 11 + place(3)

\* The sort key of line 55: int(s.stem[1:]).
CycleKey(dir) == ParseInt(dir)

RECURSIVE InsertByKey(_, _)
\* x put into a list sorted by key, behind every element whose key is not larger.
InsertByKey(x, q) ==
    IF q = << >> THEN << x >>
    ELSE IF CycleKey(x) < CycleKey(q[1]) THEN << x >> \o q
    ELSE << q[1] >> \o InsertByKey(x, Tail(q))

RECURSIVE SortedByKey(_)
\* sorted(list, key=CycleKey): ascending and stable.
SortedByKey(q) ==
    IF q = << >> THEN << >>
    ELSE InsertByKey(q[Len(q)], SortedByKey(SubSeq(q, 1, Len(q) - 1)))

\* An inner loop that stops one tile early.
NextIterationStopsEarly(cy, ti, ntiles) ==
    IF ti < ntiles - 1 THEN << cy, ti + 1 >> ELSE << cy + 1, 1 >>

\* The loop position that follows (c, b) when a cycle has ntiles tiles, lines 67 and 69.
NextIteration(cy, ti, ntiles) == IF ti < ntiles THEN << cy, ti + 1 >> ELSE << cy + 1, 1 >>

\* A read that takes a missing file for an empty one.
ReadAfterSeekSkipsMissing(f) ==
    IF f.kind = "missing" THEN [ok |-> TRUE, error |-> "none", data |-> << >>]
    ELSE [ok |-> TRUE, error |-> "none", data |-> f.body]

\* What open() and f.read() after f.seek(4) deliver: the exception, or the body.
ReadAfterSeek(f) ==
    IF f.kind = "missing" THEN [ok |-> FALSE, error |-> "FileNotFoundError", data |-> << >>]
    ELSE [ok |-> TRUE, error |-> "none", data |-> f.body]

\* How a call ends with an exception: nothing is returned.
Raise(name) ==
    /\ pc' = "error"
    /\ error' = name
    /\ returned' = << >>

AssemblerIdle == UNCHANGED << collection_vars, seq_vars >>

\* No __getitem__ has been called yet.
NoItem == [kind |-> "none"]

\* The state of the parts of the module a specification leaves alone.
NoCall ==
    /\ pc = "idle"
    /\ cycle_glob = << >>
    /\ tile_glob = << >>
    /\ later_head = << >>
    /\ disk = << >>
    /\ cycle_dirs = << >>
    /\ bcls = << >>
    /\ nr_clusters = << >>
    /\ offsets = << >>
    /\ raw = EmptyMatrix(0, 0)
    /\ c = 0
    /\ b = 0
    /\ log = << >>
    /\ returned = << >>
    /\ error = "none"

NoCollection ==
    /\ self_raw = EmptyMatrix(0, 0)
    /\ built = EmptyMatrix(0, 0)
    /\ item = NoItem
    /\ pinned = NoItem
    /\ calls = 0

NoSeq ==
    /\ seq = << >>
    /\ rc = << >>
    /\ rcrc = << >>

InitAssembler ==
    /\ \E first \in FirstCycleNumbers, n \in 0..MaxCycles :
         /\ cycle_glob \in Listings({Decimal(first + j) : j \in 0..(n - 1)})
         /\ tile_glob \in IF n = 0 THEN {<< >>}
                          ELSE UNION {Listings(S) : S \in SUBSET Tiles}
         /\ later_head \in IF n < 2 THEN {<< >>} ELSE LaterHeads
    /\ disk = [p \in DirNames \X Tiles |-> Unopened]
    /\ pc = "start"
    /\ cycle_dirs = << >>
    /\ bcls = << >>
    /\ nr_clusters = << >>
    /\ offsets = << >>
    /\ raw = EmptyMatrix(0, 0)
    /\ c = 0
    /\ b = 0
    /\ log = << >>
    /\ returned = << >>
    /\ error = "none"

\* Line 55.
SortCycles ==
    /\ pc = "start"
    /\ cycle_dirs' = SortedByKey(cycle_glob)
    /\ pc' = "tiles"
    /\ UNCHANGED << cycle_glob, tile_glob, later_head, disk, bcls, nr_clusters, offsets, raw, c, b,
                    log, returned, error >>
    /\ AssemblerIdle

\* Line 57, with a first cycle directory.
ListTiles ==
    /\ pc = "tiles"
    /\ cycle_dirs # << >>
    /\ bcls' = tile_glob
    /\ b' = 1
    /\ pc' = "headers"
    /\ UNCHANGED << cycle_glob, tile_glob, later_head, disk, cycle_dirs, nr_clusters, offsets, raw, c,
                    log, returned, error >>
    /\ AssemblerIdle

\* Line 57, without one: cycle_dirs[0] raises.
NoCycles ==
    /\ pc = "tiles"
    /\ cycle_dirs = << >>
    /\ Raise("IndexError")
    /\ UNCHANGED << cycle_glob, tile_glob, later_head, disk, cycle_dirs, bcls, nr_clusters, offsets,
                    raw, c, b, log >>
    /\ AssemblerIdle

\* Line 59, one tile: _read_bcl_nr_clusters (lines 9-11) opens the first cycle's file
\* and unpacks the four bytes f.read(4) delivers; fewer than four raise struct.error.
ReadHeader ==
    /\ pc = "headers"
    /\ b <= Len(bcls)
    /\ \E head \in Heads :
         /\ disk' = [disk EXCEPT ![<< cycle_dirs[1], bcls[b] >>] = HeaderOnly(head)]
         /\ log' = Append(log, << cycle_dirs[1], bcls[b] >>)
         /\ IF Len(head) = 4
            THEN /\ nr_clusters' = Append(nr_clusters, UnpackLE32(head))
                 /\ b' = b + 1
                 /\ UNCHANGED << pc, error, returned >>
            ELSE /\ Raise("struct.error")
                 /\ UNCHANGED << nr_clusters, b >>
    /\ UNCHANGED << cycle_glob, tile_glob, later_head, cycle_dirs, bcls, offsets, raw, c >>
    /\ AssemblerIdle

\* Lines 63-64, and the entry of the loops.
Allocate ==
    /\ pc = "headers"
    /\ b > Len(bcls)
    /\ offsets' = CumSum(<< 0 >> \o nr_clusters)
    /\ raw' = EmptyMatrix(Len(cycle_dirs), SumSeq(nr_clusters))
    /\ c' = 1
    /\ b' = 1
    /\ pc' = "loop"
    /\ UNCHANGED << cycle_glob, tile_glob, later_head, disk, cycle_dirs, bcls, nr_clusters, log,
                    returned, error >>
    /\ AssemblerIdle

\* Lines 69-74, one tile of one cycle.
ReadBody ==
    /\ pc = "loop"
    /\ c <= Len(cycle_dirs)
    /\ b <= Len(bcls)
    /\ LET path == << cycle_dirs[c], bcls[b] >>
           seen == disk[path]
       IN  \E f \in IF seen.kind = "file"
                    THEN {WholeFile(seen.head, body) :
                            body \in BodiesAfter(path[1], path[2], seen.head)}
                    ELSE FilesAt(path[1], path[2], later_head) :
             LET got == ReadAfterSeek(f)
                 put == SliceAssign(raw, c, offsets[b], offsets[b + 1], got.data)
                 next == NextIteration(c, b, Len(bcls))
             IN  /\ disk' = [disk EXCEPT ![path] = f]
                 /\ log' = IF f.kind = "file" THEN Append(log, path) ELSE log
                 /\ IF ~got.ok
                    THEN /\ Raise(got.error)
                         /\ UNCHANGED << raw, c, b >>
                    ELSE IF ~put.ok
                    THEN /\ Raise("ValueError")
                         /\ UNCHANGED << raw, c, b >>
                    ELSE /\ raw' = put.raw
                         /\ c' = next[1]
                         /\ b' = next[2]
                         /\ UNCHANGED << pc, error, returned >>
    /\ UNCHANGED << cycle_glob, tile_glob, later_head, cycle_dirs, bcls, nr_clusters, offsets >>
    /\ AssemblerIdle

\* Line 69 when the first cycle holds no tile: the inner loop has no iteration.
NoTiles ==
    /\ pc = "loop"
    /\ c <= Len(cycle_dirs)
    /\ bcls = << >>
    /\ c' = c + 1
    /\ UNCHANGED << cycle_glob, tile_glob, later_head, disk, pc, cycle_dirs, bcls, nr_clusters,
                    offsets, raw, b, log, returned, error >>
    /\ AssemblerIdle

\* Line 77.
Return ==
    /\ pc = "loop"
    /\ c > Len(cycle_dirs)
    /\ returned' = << raw >>
    /\ pc' = "done"
    /\ UNCHANGED << cycle_glob, tile_glob, later_head, disk, cycle_dirs, bcls, nr_clusters, offsets,
                    raw, c, b, log, error >>
    /\ AssemblerIdle

NextAssembler ==
    \/ SortCycles
    \/ ListTiles
    \/ NoCycles
    \/ ReadHeader
    \/ Allocate
    \/ ReadBody
    \/ NoTiles
    \/ Return

Init == InitAssembler /\ NoCollection /\ NoSeq

Next == NextAssembler

\* One call of read_cycles on a run directory.
Spec == Init /\ [][Next]_vars

----------------------------------------------------------------------------
(* SequenceCollection, lines 21-50.                                        *)

\* An array is its elements and whether it is a view of a column of the matrix
\* (so that a store into it is a store into the matrix) or owns its buffer.
ColumnView(m, col) == [view |-> TRUE, data |-> [r \in 1..m.rows |-> m.cell[<< r, col >>]]]

\* arr == 0: a fresh array of booleans.
ArrIsZero(arr) == [j \in 1..Len(arr.data) |-> arr.data[j] = 0]

\* arr &= k: the result lives in arr's own buffer.
ArrAndInPlace(arr, k) ==
    [arr EXCEPT !.data = [j \in 1..Len(arr.data) |-> BitAnd(arr.data[j], k)]]

\* arr & k: a fresh array.
ArrAnd(arr, k) == [view |-> FALSE, data |-> [j \in 1..Len(arr.data) |-> BitAnd(arr.data[j], k)]]

\* arr >> n: a fresh array.
ArrShiftRight(arr, n) ==
    [view |-> FALSE, data |-> [j \in 1..Len(arr.data) |-> ShiftRight(arr.data[j], n)]]

\* arr[mask] = v, in place.
MaskAssign(arr, mask, v) ==
    [arr EXCEPT !.data = [j \in 1..Len(arr.data) |-> IF mask[j] THEN v ELSE arr.data[j]]]

\* The matrix after a store into arr, which reaches the matrix if arr is a view of col.
StoreThrough(m, col, arr) ==
    IF arr.view
    THEN [m EXCEPT !.cell = [p \in DOMAIN m.cell |->
                               IF p[2] = col THEN arr.data[p[1]] ELSE m.cell[p]]]
    ELSE m

\* The table with G and T exchanged.
base_mapping_swapped == << "A", "C", "T", "G", "N" >>

\* Line 7.
base_mapping == << "A", "C", "G", "T", "N" >>

\* An index check that refuses every negative index.
AxisIndexFromZero(i, size) == IF 0 <= i /\ i < size THEN i + 1 ELSE 0

\* The position on an axis of length size that numpy gives the integer index i:
\* negative indices count from the end; 0 stands for IndexError.
AxisIndex(i, size) ==
    IF 0 <= i /\ i < size THEN i + 1
    ELSE IF -size <= i /\ i < 0 THEN size + i + 1
    ELSE 0

\* Line 27.
SequenceCollection_len(m) == m.cols

\* Lines 30-50 on column col of m: the read returned and the matrix left behind.
DecodeColumn(m, col) ==
    LET raw_seq == ColumnView(m, col)
        mask == ArrIsZero(raw_seq)
        bases0 == ArrAnd(raw_seq, 3)
        quality0 == ArrShiftRight(ArrAnd(raw_seq, 252), 2)
        bases == MaskAssign(bases0, mask, 4)
        quality == MaskAssign(quality0, mask, 2)
    IN  [sequence |-> [j \in 1..Len(bases.data) |-> base_mapping[bases.data[j] + 1]],
         quality |-> quality.data,
         raw |-> StoreThrough(StoreThrough(m, col, bases), col, quality)]

\* The integers given to __getitem__ on a collection of length n: every position,
\* counted from either end, and one integer past each end.
Indices(n) == (-(n + 1))..n

\* The calls of __getitem__ counted, up to this many.
MaxCalls == 3

\* A byte with no-call, and one with a base and a quality.
ByteSample == {0, 182}

Matrices(cells) ==
    UNION {{[rows |-> r, cols |-> n, cell |-> f] : f \in [(1..r) \X (1..n) -> cells]} :
             r \in 0..MaxRows, n \in 0..MaxCols}

\* The collections of one cluster whose column holds any byte at one cycle.
Probes ==
    UNION {{[rows |-> r, cols |-> 1,
             cell |-> [q \in (1..r) \X {1} |-> IF q[1] = at THEN byte ELSE fill]] :
              at \in 1..r, byte \in Byte, fill \in ByteSample} : r \in 1..MaxRows}

\* SequenceCollection(m), lines 22-23.
Construct(m) ==
    /\ self_raw = m
    /\ built = m
    /\ item = NoItem
    /\ pinned = NoItem
    /\ calls = 0

InitCollection == (\E m \in Matrices(ByteSample) : Construct(m)) /\ NoCall /\ NoSeq

InitDecode == (\E m \in Probes : Construct(m)) /\ NoCall /\ NoSeq

\* collection[index], lines 29-50.
GetItem ==
    /\ calls < MaxCalls
    /\ calls' = calls + 1
    /\ \E index \in Indices(SequenceCollection_len(self_raw)) :
         LET col == AxisIndex(index, self_raw.cols)
         IN  IF col = 0
             THEN /\ item' = [kind |-> "IndexError", index |-> index, nth |-> calls']
                  /\ self_raw' = self_raw
             ELSE LET got == DecodeColumn(self_raw, col)
                  IN  /\ item' = [kind |-> "read", index |-> index, nth |-> calls',
                                  sequence |-> got.sequence, quality |-> got.quality]
                      /\ self_raw' = got.raw
    /\ pinned' = IF pinned = NoItem THEN item' ELSE pinned
    /\ UNCHANGED built
    /\ UNCHANGED << assembler_vars, seq_vars >>

NextCollection == GetItem

\* Positional accesses on a collection of sample bytes.
SpecCollection == InitCollection /\ [][NextCollection]_vars

\* Positional accesses on a collection that holds any byte.
SpecDecode == InitDecode /\ [][NextCollection]_vars

----------------------------------------------------------------------------
(* Seq, lines 13-19.                                                       *)

Alphabet == {"A", "C", "G", "T", "N"}

\* str.maketrans(from, to): character from[j] becomes to[j].
MakeTrans(from, to) ==
    [ch \in {from[j] : j \in 1..Len(from)} |->
       to[CHOOSE j \in 1..Len(from) : from[j] = ch /\ \A k \in (j + 1)..Len(from) : from[k] # ch]]

\* The table built from 'ACGT' instead of 'ACTG'.
REVCOMP_TABLE_MISORDERED ==
    MakeTrans(<< "A", "C", "G", "T" >>, << "T", "G", "A", "C" >>)

\* Line 13.
REVCOMP_TRANSLATION_TABLE ==
    MakeTrans(<< "A", "C", "T", "G" >>, << "T", "G", "A", "C" >>)

\* str.translate(table): a character the table does not hold stays.
Translate(s, table) ==
    [j \in 1..Len(s) |-> IF s[j] \in DOMAIN table THEN table[s[j]] ELSE s[j]]

\* self[::-1], through Seq.__getitem__ (lines 18-19).
Reversed(s) == [j \in 1..Len(s) |-> s[Len(s) + 1 - j]]

\* Lines 15-16.
reverse_complement(s) == Translate(Reversed(s), REVCOMP_TRANSLATION_TABLE)

Strings == UNION {[1..n -> Alphabet] : n \in 0..MaxSeqLen}

InitSeq ==
    /\ seq \in Strings
    /\ rc = << >>
    /\ rcrc = << >>
    /\ NoCall
    /\ NoCollection

\* seq.reverse_complement().
ReverseComplement ==
    /\ rc = << >>
    /\ rc' = << reverse_complement(seq) >>
    /\ UNCHANGED << seq, rcrc >>
    /\ UNCHANGED << assembler_vars, collection_vars >>

\* The reverse complement of the value that ReverseComplement returned.
ReverseComplementAgain ==
    /\ rc # << >>
    /\ rcrc = << >>
    /\ rcrc' = << reverse_complement(rc[1]) >>
    /\ UNCHANGED << seq, rc >>
    /\ UNCHANGED << assembler_vars, collection_vars >>

NextSeq ==
    \/ ReverseComplement
    \/ ReverseComplementAgain

\* reverse_complement on the strings over the alphabet.
SpecSeq == InitSeq /\ [][NextSeq]_vars

----------------------------------------------------------------------------
(* What the properties below speak of, stated on the run directory and on  *)
(* the matrix at construction rather than on the code's own bookkeeping.   *)

\* The base and the quality that the BaseCall rule gives a byte.
RuleBase(byte) ==
    IF byte = 0 THEN "N"
    ELSE CASE byte % 4 = 0 -> "A"
           [] byte % 4 = 1 -> "C"
           [] byte % 4 = 2 -> "G"
           [] OTHER -> "T"

RuleQuality(byte) == IF byte = 0 THEN 2 ELSE (byte \div 4) % 64

\* Whether a read is the decode of column col (counted from 1) of the matrix at construction.
IsDecodeOf(read, col) ==
    /\ Len(read.sequence) = built.rows
    /\ Len(read.quality) = built.rows
    /\ \A r \in 1..built.rows :
         /\ read.sequence[r] = RuleBase(built.cell[<< r, col >>])
         /\ read.quality[r] = RuleQuality(built.cell[<< r, col >>])
         /\ read.quality[r] \in 0..63

\* The complement of a base.
Comp(ch) ==
    CASE ch = "A" -> "T"
      [] ch = "T" -> "A"
      [] ch = "C" -> "G"
      [] ch = "G" -> "C"
      [] OTHER -> ch

\* The cycle directories of the run, and the one whose number is the r-th smallest.
RunDirs == {cycle_glob[j] : j \in 1..Len(cycle_glob)}

CycleOfRow(r) ==
    CHOOSE d \in RunDirs :
      Cardinality({e \in RunDirs : ParseInt(e) < ParseInt(d)}) = r - 1

TileRange == 1..Len(tile_glob)

RowRange == 1..Len(cycle_glob)

FileOf(r, j) == disk[<< CycleOfRow(r), tile_glob[j] >>]

\* The cluster count that the first cycle's header declares for the j-th tile;
\* -1 as long as no whole header of that file has been seen.
DeclaredCount(j) ==
    LET f == FileOf(1, j)
    IN  IF f.kind = "file" /\ Len(f.head) = 4 THEN UnpackLE32(f.head) ELSE -1

RECURSIVE TileOffset(_)
\* The number of clusters of the tiles before the j-th.
TileOffset(j) == IF j = 1 THEN 0 ELSE TileOffset(j - 1) + DeclaredCount(j - 1)

\* Every cycle has every tile of the first, each body as long as the first cycle declares.
ConsistentRun ==
    \A r \in RowRange, j \in TileRange :
      LET f == FileOf(r, j)
      IN  f.kind = "file" /\ f.whole /\ Len(f.body) = DeclaredCount(j)

\* The j-th tile's file of cycle row r has been read and holds more bytes behind
\* its header than the first cycle declares clusters for the tile.
HasExcess(r, j) ==
    LET f == FileOf(r, j)
    IN  f.kind = "file" /\ f.whole /\ Len(f.body) > DeclaredCount(j)

\* The opens of a call that completes: the headers of the first cycle in tile order,
\* then the bodies, cycle by cycle and within a cycle tile by tile.
ExpectedOpens ==
    [j \in TileRange |-> << CycleOfRow(1), tile_glob[j] >>] \o
    [n \in 1..(Len(cycle_glob) * Len(tile_glob)) |->
       << CycleOfRow(((n - 1) \div Len(tile_glob)) + 1),
          tile_glob[((n - 1) % Len(tile_glob)) + 1] >>]

\* The call ended with an exception in the loops, at cycle row r and tile j.
FailedOn(r, j) == pc = "error" /\ c = r /\ b = j /\ bcls = tile_glob

OpensOf(path) == Cardinality({n \in 1..Len(log) : log[n] = path})

IsPrefix(p, q) == Len(p) <= Len(q) /\ SubSeq(q, 1, Len(p)) = p

----------------------------------------------------------------------------
(* The claims.                                                             *)

\* C1: a read returned for a valid index i is the elementwise decode of column i by
\* the BaseCall rule: byte 0 gives 'N' with quality 2, any other byte b gives
\* 'ACGT'[b & 3] with quality (b >> 2) & 63; sequence and quality have one entry per
\* cycle, in cycle order, and every quality lies in 0..63.  For every byte value.
C1_GetItemDecodesColumn ==
    item.kind = "read" /\ item.index >= 0 => IsDecodeOf(item, item.index + 1)

\* A read of a column that holds a no-call and the byte 255 has been returned.
C1_Witness ==
    /\ item.kind = "read"
    /\ item.index = 0
    /\ built.rows = 2
    /\ built.cell[<< 1, 1 >>] = 0
    /\ built.cell[<< 2, 1 >>] = 255
    /\ item.sequence = << "N", "T" >>
    /\ item.quality = << 2, 63 >>

\* C2: a call that succeeds returns a matrix with one row per cycle directory and
\* as many columns as the first cycle's headers declare clusters, every cell written;
\* on a consistent run, row r belongs to the directory with the r-th smallest number
\* and cell (r, offset of tile j + k) is byte k of the body of tile j in that cycle.
C2_MatrixOfConsistentRun ==
    pc = "done" =>
      /\ Len(returned) = 1
      /\ \A j \in TileRange : DeclaredCount(j) >= 0
      /\ returned[1].rows = Len(cycle_glob)
      /\ returned[1].cols = TileOffset(Len(tile_glob) + 1)
      /\ SequenceCollection_len(returned[1]) = TileOffset(Len(tile_glob) + 1)
      /\ DOMAIN returned[1].cell = RowRange \X (1..TileOffset(Len(tile_glob) + 1))
      /\ \A p \in DOMAIN returned[1].cell :
           returned[1].cell[p] # Uninitialised /\ returned[1].cell[p] \in Byte
      /\ ConsistentRun =>
           \A r \in RowRange, j \in TileRange :
             \A k \in 1..DeclaredCount(j) :
               returned[1].cell[<< r, TileOffset(j) + k >>] = FileOf(r, j).body[k]

\* A consistent run of C9.1 and C10.1, listed C10.1 first, with a tile of two
\* clusters and then one of one cluster, has been assembled.
C2_Witness ==
    /\ pc = "done"
    /\ cycle_glob = << Decimal(10), Decimal(9) >>
    /\ Len(tile_glob) = 2
    /\ ConsistentRun
    /\ DeclaredCount(1) = 2
    /\ DeclaredCount(2) = 1

\* C3: when a cycle directory after the first lacks a tile file of the first, the
\* call fails and returns no collection; a call that succeeds has found every file.
C3_MissingTileFails ==
    /\ (\E r \in RowRange, j \in TileRange : r > 1 /\ FileOf(r, j).kind = "missing")
         => pc = "error" /\ error # "none" /\ returned = << >>
    /\ pc = "done" => \A r \in RowRange, j \in TileRange : FileOf(r, j).kind = "file"

\* The second tile of the second cycle was missing, after three files were read.
C3_Witness ==
    /\ pc = "error"
    /\ error = "FileNotFoundError"
    /\ Len(cycle_glob) = 2
    /\ Len(tile_glob) = 2
    /\ FileOf(2, 2).kind = "missing"
    /\ returned = << >>

\* C4: a call never succeeds when a tile file of a later cycle carries a cluster
\* count, in its header or as its body length, other than the one the first cycle's
\* header declares for the tile.
C4_CountMismatchAborts ==
    pc = "done" =>
      \A r \in RowRange, j \in TileRange :
        LET f == FileOf(r, j)
        IN  r > 1 =>
              /\ Len(f.head) = 4
              /\ UnpackLE32(f.head) = DeclaredCount(j)
              /\ Len(f.body) = DeclaredCount(j)

\* C5: a call never succeeds when the body of a tile file, in any cycle, is shorter
\* than the cluster count its own header declares.
C5_ShortBodyFails ==
    pc = "done" =>
      \A r \in RowRange, j \in TileRange :
        LET f == FileOf(r, j)
        IN  Len(f.head) = 4 => Len(f.body) >= UnpackLE32(f.head)

\* C6, as claimed: a tile file whose body is longer than the cluster count declared
\* for its tile does not make the call fail.
C6_ExcessBytesTolerated ==
    \A r \in RowRange, j \in TileRange : HasExcess(r, j) => ~FailedOn(r, j)

\* C6, as amended: a tile file whose body is longer than the cluster count declared
\* for its tile ends the call with ValueError and without a collection, as soon as it
\* is read; only a body of one byte for a tile of no cluster is accepted.
C6_ExcessBytesRejected ==
    \A r \in RowRange, j \in TileRange :
      HasExcess(r, j)
        => IF Len(FileOf(r, j).body) = 1
           THEN ~FailedOn(r, j)
           ELSE /\ pc = "error"
                /\ error = "ValueError"
                /\ returned = << >>
                /\ FailedOn(r, j)

\* A body of three bytes was read for a tile of two clusters.
C6_Witness ==
    /\ pc = "error"
    /\ error = "ValueError"
    /\ \E r \in RowRange, j \in TileRange :
         /\ HasExcess(r, j)
         /\ FailedOn(r, j)
         /\ DeclaredCount(j) = 2
         /\ Len(FileOf(r, j).body) = 3

\* C7, as claimed: an access returns a read exactly for the indices 0 <= i < N.
C7_OnlyZeroToLength ==
    item.kind # "none" =>
      (item.kind = "read" <=> (0 <= item.index /\ item.index < built.cols))

\* C7, as amended: an access fails with IndexError exactly for i < -N and i >= N; for
\* -N <= i < 0 it returns the read of column N + i.
C7_IndexErrorOutsideBothEnds ==
    item.kind # "none" =>
      /\ item.kind = "IndexError" <=> (item.index < -built.cols \/ item.index >= built.cols)
      /\ item.kind = "read" <=> (-built.cols <= item.index /\ item.index < built.cols)
      /\ item.kind = "read" /\ item.index < 0
           => IsDecodeOf(item, built.cols + item.index + 1)
      /\ item.kind = "read" /\ item.index >= 0 => IsDecodeOf(item, item.index + 1)

\* Index -1 returned the read of the last of two columns that differ.
C7_Witness ==
    /\ item.kind = "read"
    /\ item.index = -1
    /\ built.cols = 2
    /\ built.rows = 1
    /\ built.cell[<< 1, 1 >>] = 0
    /\ built.cell[<< 1, 2 >>] = 182
    /\ item.sequence = << "G" >>

\* C8: no access changes the matrix or the length, and an access at the index of the
\* first access, whatever happened in between, returns what the first returned.
C8_GetItemLeavesMatrix ==
    /\ self_raw = built
    /\ SequenceCollection_len(self_raw) = SequenceCollection_len(built)
    /\ item.kind # "none" /\ item.index = pinned.index
         => [item EXCEPT !.nth = pinned.nth] = pinned

\* The third access read the column of the first again, a column with a no-call.
C8_Witness ==
    /\ calls = 3
    /\ item.nth = 3
    /\ pinned.nth = 1
    /\ item.kind = "read"
    /\ item.index = pinned.index
    /\ item.index >= 0
    /\ \E r \in 1..built.rows : built.cell[<< r, item.index + 1 >>] = 0

\* C9: reverse_complement returns a value of the same length whose k-th character
\* is the complement of the k-th character from the end, N being its own complement;
\* applied to its own result it returns the original.
C9_ReverseComplement ==
    /\ rc # << >> =>
         /\ Len(rc[1]) = Len(seq)
         /\ \A k \in 1..Len(seq) : rc[1][k] = Comp(seq[Len(seq) + 1 - k])
    /\ rcrc # << >> => rcrc[1] = seq

\* "ACN" was reverse complemented to "NGT" and that back to "ACN".
C9_Witness ==
    /\ seq = << "A", "C", "N" >>
    /\ rc = << << "N", "G", "T" >> >>
    /\ rcrc = << seq >>

\* C10, as claimed: a call that completes has opened every file of every cycle
\* exactly once.
C10_EveryFileOpenedOnce ==
    pc = "done" =>
      \A r \in RowRange, j \in TileRange : OpensOf(<< CycleOfRow(r), tile_glob[j] >>) = 1

\* C10, as amended: a call that completes has opened the first cycle's files for
\* their headers, in tile order, and then every file of every cycle once for its body,
\* cycle by cycle, tile by tile: twice each file of the first cycle, once each other
\* file.  A call that fails has opened a prefix of that.
C10_OpensInOrder ==
    /\ IsPrefix(log, ExpectedOpens)
    /\ pc = "done" =>
         /\ log = ExpectedOpens
         /\ \A r \in RowRange, j \in TileRange :
              OpensOf(<< CycleOfRow(r), tile_glob[j] >>) = IF r = 1 THEN 2 ELSE 1

\* A call on two cycles of two tiles has completed.
C10_Witness ==
    /\ pc = "done"
    /\ Len(cycle_glob) = 2
    /\ Len(tile_glob) = 2
    /\ Len(log) = 6

====
